---- MODULE Spec2Model ----
(***************************************************************************)
(* Model of scrape.py: user-agent and proxy rotation and the browser       *)
(* session bootstrap.                                                      *)
(*                                                                         *)
(* A Python str is a sequence of one-character strings.  An optional       *)
(* value (None or a list) is a record [isNone, list].                      *)
(***************************************************************************)
EXTENDS Integers, Sequences, FiniteSets, TLC

VARIABLES
    pc,                \* position of the running call
    entry,             \* the function the run was started with
    string,            \* is_valid_proxy: the argument
    result,            \* is_valid_proxy: the returned bool
    dirExists,         \* whether proxies_dir exists on disk
    dir,               \* the files of proxies_dir, in glob order
    created,           \* whether os.makedirs had to create proxies_dir
    poolRet,           \* the value get_proxy_pool returned
    user_agents_list,  \* get_random_user_agent: the argument
    proxy_pool,        \* get_random_proxy: the argument
    response,          \* the reply of the user-agent service, once queried
    queried,           \* whether the user-agent service was queried
    user_agent,        \* the chosen user agent: <<>> or <<ua>>
    proxy,             \* the chosen proxy: <<>> or <<proxies>>
    driver,            \* the browser session: "none", "live" or "quit"
    events,            \* the calls made so far, in order
    caught,            \* whether initialize_driver's except clause was entered
    error              \* the exception that ended the run, "" when none

vars ==
    <<pc, entry, string, result, dirExists, dir, created, poolRet,
      user_agents_list, proxy_pool, response, queried, user_agent, proxy,
      driver, events, caught, error>>

validVars == <<string, result>>

poolVars == <<dirExists, dir, created, poolRet>>

runVars ==
    <<user_agents_list, proxy_pool, response, queried, user_agent, proxy,
      driver, events, caught, error>>

----------------------------------------------------------------------------
(* Bounds of the model *)

MaxTail == 3
MaxPortDigits == 6
MaxFiles == 2
MaxLines == 3
MaxRunLines == 2
MaxAgents == 2
MaxPool == 2

----------------------------------------------------------------------------
(* Characters and strings *)

Digits == {"0", "1", "2", "3", "4", "5", "6", "7", "8", "9"}

Letters ==
    {"a", "b", "c", "d", "e", "f", "g", "h", "i", "j", "k", "l", "m",
     "n", "o", "p", "q", "r", "s", "t", "u", "v", "w", "x", "y", "z",
     "A", "B", "C", "D", "E", "F", "G", "H", "I", "J", "K", "L", "M",
     "N", "O", "P", "Q", "R", "S", "T", "U", "V", "W", "X", "Y", "Z"}

\* what str.strip() removes and what \s matches
Whitespace == {" ", "\t", "\n", "\r", "\f"}

IsSpace(c) == c \in Whitespace

\* \d
IsDigit(c) == c \in Digits

\* [^:@\s]
IsCredChar(c) == c \notin ({":", "@"} \cup Whitespace)

\* [a-zA-Z0-9.-]
IsDomainChar(c) == c \in (Letters \cup Digits \cup {".", "-"})

Http == <<"h", "t", "t", "p", ":", "/", "/">>
Https == <<"h", "t", "t", "p", "s", ":", "/", "/">>

Min(a, b) == IF a < b THEN a ELSE b

\* an optional list: None, or the list l
None == [isNone |-> TRUE, list |-> <<>>]

Some(l) == [isNone |-> FALSE, list |-> l]

\* the reply of the user-agent service before any query
NoResponse == [ok |-> TRUE, hasResult |-> FALSE, result |-> <<>>]

\* the state of a run nothing has acted in
RunIdle ==
    /\ user_agents_list = None
    /\ proxy_pool = None
    /\ response = NoResponse
    /\ queried = FALSE
    /\ user_agent = <<>>
    /\ proxy = <<>>
    /\ driver = "none"
    /\ events = <<>>
    /\ caught = FALSE
    /\ error = ""

RECURSIVE LStrip(_)
LStrip(s) == IF s # <<>> /\ IsSpace(Head(s)) THEN LStrip(Tail(s)) ELSE s

RECURSIVE RStrip(_)
RStrip(s) ==
    IF s # <<>> /\ IsSpace(s[Len(s)]) THEN RStrip(SubSeq(s, 1, Len(s) - 1)) ELSE s

\* str.strip()
Strip(s) == RStrip(LStrip(s))

----------------------------------------------------------------------------
(* proxy_pattern.  A position is the number of characters consumed; each   *)
(* operator gives the set of positions at which its part of the pattern    *)
(* can end when started at position i.                                     *)

\* the literal w at position i
Lit(s, i, w) == i + Len(w) <= Len(s) /\ SubSeq(s, i + 1, i + Len(w)) = w

\* whether c is in the character class written cls in the pattern
InClass(cls, c) ==
    CASE cls = "\\d" -> IsDigit(c)
      [] cls = "[^:@\\s]" -> IsCredChar(c)
      [] cls = "[a-zA-Z0-9.-]" -> IsDomainChar(c)

\* cls{lo,hi} started at i
Rep(s, i, cls, lo, hi) ==
    {j \in (i + lo)..Min(i + hi, Len(s)) : \A k \in (i + 1)..j : InClass(cls, s[k])}

\* (?:(?:http|https)://)?
SchemeEnds(s) == {0} \cup {Len(w) : w \in {x \in {Http, Https} : Lit(s, 0, x)}}

\* (?:[^:@\s]+(?::[^:@\s]+)?@)?
CredEnds(s, i) ==
    LET users == Rep(s, i, "[^:@\\s]", 1, Len(s))
        passes == UNION {IF Lit(s, u, <<":">>)
                         THEN Rep(s, u + 1, "[^:@\\s]", 1, Len(s))
                         ELSE {} : u \in users}
    IN  {i} \cup {j + 1 : j \in {e \in users \cup passes : Lit(s, e, <<"@">>)}}

\* \.\d{1,3}
DotOctetEnds(s, i) ==
    IF Lit(s, i, <<".">>) THEN Rep(s, i + 1, "\\d", 1, 3) ELSE {}

\* \d{1,3}(?:\.\d{1,3}){3}
IPEnds(s, i) ==
    LET e1 == Rep(s, i, "\\d", 1, 3)
        e2 == UNION {DotOctetEnds(s, e) : e \in e1}
        e3 == UNION {DotOctetEnds(s, e) : e \in e2}
    IN  UNION {DotOctetEnds(s, e) : e \in e3}

\* [a-zA-Z0-9.-]+
DomainEnds(s, i) == Rep(s, i, "[a-zA-Z0-9.-]", 1, Len(s))

\* (?:ip|domain)
HostEnds(s, i) == IPEnds(s, i) \cup DomainEnds(s, i)

\* mutant: the port as :\d{1,4}
PortEndsFour(s, i) ==
    IF Lit(s, i, <<":">>) THEN Rep(s, i + 1, "\\d", 1, 4) ELSE {}

\* :\d{1,5}
PortEnds(s, i) ==
    IF Lit(s, i, <<":">>) THEN Rep(s, i + 1, "\\d", 1, 5) ELSE {}

\* $ : the end of the string, or just before a final newline
AtEnd(s, i) == i = Len(s) \/ (i = Len(s) - 1 /\ s[Len(s)] = "\n")

\* proxy_pattern.match(s)
PatternMatch(s) ==
    \E a \in SchemeEnds(s) : \E b \in CredEnds(s, a) :
        \E c \in HostEnds(s, b) : \E d \in PortEnds(s, c) : AtEnd(s, d)

is_valid_proxy(s) == PatternMatch(Strip(s))

----------------------------------------------------------------------------
(* Arguments of is_valid_proxy: composed proxy lines, and every short      *)
(* string over TailChars behind a scheme-like prefix.                      *)

RECURSIVE Concat(_)
Concat(ss) == IF ss = <<>> THEN <<>> ELSE Head(ss) \o Concat(Tail(ss))

RECURSIVE SeqsUpTo(_, _)
SeqsUpTo(S, n) ==
    IF n = 0 THEN {<<>>}
    ELSE LET shorter == SeqsUpTo(S, n - 1)
         IN  shorter \cup {<<x>> \o t : x \in S, t \in {u \in shorter : Len(u) = n - 1}}

Ftp == <<"f", "t", "p", ":", "/", "/">>

Pads == {<<>>, <<" ">>, <<"\t", "\n">>}

SchemeParts == {<<>>, Http, Https, Ftp, <<"h", "t", "t", "p", ":", "/">>}

CredParts ==
    {<<>>, <<"u", ":", "p", "@">>, <<"u", "1", ":", "p", "/", "@">>, <<"u", "@">>,
     <<"u", ":", "@">>, <<":", "p", "@">>, <<"u", ":", "p", ":", "q", "@">>,
     <<"u", " ", ":", "p", "@">>, <<"@">>}

HostParts ==
    {<<"1", ".", "2", ".", "3", ".", "4">>, <<"9", "9", "9", ".", "0", ".", "0", ".", "1">>,
     <<"a", ".", "b">>, <<"x", "-", "Y", "3">>, <<"1", ".", "2">>, <<>>,
     <<"a", "_", "b">>, <<"a", " ", "b">>}

PortParts ==
    {<<>>, <<":", "8", "a">>, <<"8", "0">>}
    \cup {<<":">> \o [k \in 1..n |-> "9"] : n \in 0..MaxPortDigits}

TailChars == {"a", "1", ".", ":", "@", "/", " "}

Composed ==
    {Concat(<<l, sc, cr, h, p, r>>) :
        l \in Pads, sc \in SchemeParts, cr \in CredParts, h \in HostParts,
        p \in PortParts, r \in Pads}

Free == {sc \o t : sc \in {<<>>, Http, Ftp}, t \in SeqsUpTo(TailChars, MaxTail)}

Inputs == Composed \cup Free

InitValid ==
    /\ pc = "is_valid_proxy"
    /\ entry = "is_valid_proxy"
    /\ string \in Inputs
    /\ result = FALSE
    /\ dirExists = FALSE
    /\ dir = <<>>
    /\ created = FALSE
    /\ poolRet = None
    /\ RunIdle

IsValidProxy ==
    /\ pc = "is_valid_proxy"
    /\ result' = is_valid_proxy(string)
    /\ pc' = "done"
    /\ UNCHANGED <<entry, string, poolVars, runVars>>

SpecValid == InitValid /\ [][IsValidProxy]_vars

----------------------------------------------------------------------------
(* get_proxy_pool.  A file of the directory is a record                    *)
(*   txt   : whether its name matches *.txt                                *)
(*   lines : its lines, each with its line end                             *)
(*   fail  : 0 when it opens and reads without error, 1 when open()        *)
(*           raises, k + 1 when reading line k raises                      *)

\* proxies_dir.glob('*.txt')
Glob(d) == SelectSeq(d, LAMBDA f : f.txt)

\* the exception the try body raises on the file, "" when none
Raised(file) == IF file.fail = 0 THEN "" ELSE "OSError"

\* except (OSError, IOError) and except Exception: both log and continue
Catches(exc) == exc \in {"OSError", "Exception"}

\* the lines the file iterator yields before it ends or raises
LinesRead(file) ==
    IF file.fail = 0 THEN file.lines ELSE SubSeq(file.lines, 1, file.fail - 2)

RECURSIVE ProxiesList(_)
\* [line.strip() for line in f if is_valid_proxy(line)]
ProxiesList(ls) ==
    IF ls = <<>> THEN <<>>
    ELSE (IF is_valid_proxy(Head(ls)) THEN <<Strip(Head(ls))>> ELSE <<>>)
         \o ProxiesList(Tail(ls))

\* mutant: only http:// is removed
SubSchemeHttpOnly(s) ==
    IF Lit(s, 0, Http) THEN SubSeq(s, Len(Http) + 1, Len(s)) ELSE s

\* re.sub(r'^(http://|https://)', '', proxy)
SubScheme(s) ==
    IF Lit(s, 0, Http) THEN SubSeq(s, Len(Http) + 1, Len(s))
    ELSE IF Lit(s, 0, Https) THEN SubSeq(s, Len(Https) + 1, Len(s))
    ELSE s

\* the proxies dictionary built from one entry of proxies_list
Proxies(s) == [http |-> Http \o SubScheme(s), https |-> Https \o SubScheme(s)]

\* mutant: each proxy is appended as its line is read
FileEntriesPartial(file) ==
    LET proxies_list == ProxiesList(LinesRead(file))
    IN  [k \in 1..Len(proxies_list) |-> Proxies(proxies_list[k])]

\* what one iteration of the file loop appends to proxy_pool: the list is
\* built in full before the first append, so a file that raises appends nothing
FileEntries(file) ==
    IF Raised(file) # "" THEN <<>>
    ELSE LET proxies_list == ProxiesList(LinesRead(file))
         IN  [k \in 1..Len(proxies_list) |-> Proxies(proxies_list[k])]

RECURSIVE PoolOf(_)
\* the loop over proxy_files: the exception that leaves it ("" when none)
\* and proxy_pool
PoolOf(proxy_files) ==
    IF proxy_files = <<>> THEN [exc |-> "", pool |-> <<>>]
    ELSE LET file == Head(proxy_files)
         IN  IF Raised(file) # "" /\ ~Catches(Raised(file))
             THEN [exc |-> Raised(file), pool |-> <<>>]
             ELSE LET rest == PoolOf(Tail(proxy_files))
                  IN  [exc |-> rest.exc, pool |-> FileEntries(file) \o rest.pool]

\* mutant: the pool is returned as it is, empty or not
get_proxy_pool_list(d) ==
    LET loop == PoolOf(Glob(d))
    IN  [exc |-> loop.exc, ret |-> IF loop.exc = "" THEN Some(loop.pool) ELSE None]

get_proxy_pool(d) ==
    LET loop == PoolOf(Glob(d))
    IN  [exc |-> loop.exc,
         ret |-> IF loop.exc = "" /\ Len(loop.pool) > 0 THEN Some(loop.pool) ELSE None]

----------------------------------------------------------------------------
(* Directories: at most f files holding at most l lines in all.            *)

Line1 == <<"1", ".", "2", ".", "3", ".", "4", ":", "8", "0", "\n">>
Line2 == <<" ", "h", "t", "t", "p", "s", ":", "/", "/", "u", ":", "p", "@", "a", ".", "b", ":", "1", " ", "\n">>
Line3 == <<"h", "t", "t", "p", ":", "/", "/", "x", "-", "1", ":", "9", "9", "9", "9", "9">>
Line4 == <<"1", ".", "2", ".", "3", ".", "4", "\n">>

Lines == {Line1, Line2, Line3, Line4}

\* the files that hold n lines
FilesOf(n) ==
    UNION {{[txt |-> TRUE, lines |-> ls, fail |-> f] : f \in 0..(n + 1)}
           \cup {[txt |-> FALSE, lines |-> ls, fail |-> 0]}
           : ls \in {x \in SeqsUpTo(Lines, n) : Len(x) = n}}

RECURSIVE Sum(_)
Sum(ns) == IF ns = <<>> THEN 0 ELSE Head(ns) + Sum(Tail(ns))

\* the line counts of the files of a directory
Shapes(f, l) == {ns \in SeqsUpTo(0..l, f) : Sum(ns) <= l}

RECURSIVE DirsOfShape(_)
DirsOfShape(ns) ==
    IF ns = <<>> THEN {<<>>}
    ELSE {<<file>> \o rest : file \in FilesOf(Head(ns)), rest \in DirsOfShape(Tail(ns))}

InitPool ==
    /\ pc = "get_proxy_pool"
    /\ entry = "get_proxy_pool"
    /\ created = FALSE
    /\ RunIdle
    /\ \E ns \in Shapes(MaxFiles, MaxLines) : dir \in DirsOfShape(ns)
    /\ dirExists \in {b \in BOOLEAN : dir # <<>> => b}
    /\ poolRet = None
    /\ string = <<>>
    /\ result = FALSE

GetProxyPool ==
    /\ pc = "get_proxy_pool"
    /\ created' = ~dirExists
    /\ dirExists' = TRUE
    /\ poolRet' = get_proxy_pool(dir).ret
    /\ error' = get_proxy_pool(dir).exc
    /\ pc' = IF get_proxy_pool(dir).exc = "" THEN "done" ELSE "raised"
    /\ UNCHANGED <<entry, dir, validVars, user_agents_list, proxy_pool, response,
                   queried, user_agent, proxy, driver, events, caught>>

SpecPool == InitPool /\ [][GetProxyPool]_vars

----------------------------------------------------------------------------
(* User-agent and proxy selection.  The outcome of a call is a record      *)
(*   exc : the exception it raises, "" when it returns                     *)
(*   val : <<>> or <<the returned value>>                                  *)

\* json_response.get('result', None)
get_user_agents_list(resp) == IF resp.hasResult THEN Some(resp.result) ELSE None

\* random.choice: TypeError on None, IndexError on an empty list
choice(l) ==
    IF l.isNone THEN {[exc |-> "TypeError", val |-> <<>>]}
    ELSE IF l.list = <<>> THEN {[exc |-> "IndexError", val |-> <<>>]}
    ELSE {[exc |-> "", val |-> <<l.list[k]>>] : k \in 1..Len(l.list)}

\* the outcomes of choice(l), with whether the service was asked for l
Chosen(l, asked) == {[exc |-> o.exc, val |-> o.val, asked |-> asked] : o \in choice(l)}

\* requests.get or response.json raises
RequestFails == {[exc |-> "RequestException", val |-> <<>>, asked |-> TRUE]}

\* mutant: a new list is fetched whatever was supplied
get_random_user_agent_refetch(arg, resp) ==
    IF ~resp.ok THEN RequestFails ELSE Chosen(get_user_agents_list(resp), TRUE)

\* mutant: an empty or absent list gives None instead of an error
get_random_user_agent_guarded(arg, resp) ==
    IF arg.isNone /\ ~resp.ok THEN RequestFails
    ELSE LET l == IF arg.isNone THEN get_user_agents_list(resp) ELSE arg
         IN  IF l.isNone \/ l.list = <<>>
             THEN {[exc |-> "", val |-> <<>>, asked |-> arg.isNone]}
             ELSE Chosen(l, arg.isNone)

\* the outcomes of get_random_user_agent(arg) when the service replies resp
get_random_user_agent(arg, resp) ==
    IF arg.isNone
    THEN IF ~resp.ok THEN RequestFails ELSE Chosen(get_user_agents_list(resp), TRUE)
    ELSE Chosen(arg, FALSE)

\* mutant: only a missing pool is fatal
get_random_proxy_none_only(arg, loaded) ==
    LET pool == IF arg.isNone THEN loaded.ret ELSE arg
    IN  IF arg.isNone /\ loaded.exc # "" THEN {[exc |-> loaded.exc, val |-> <<>>]}
        ELSE IF pool.isNone THEN {[exc |-> "RuntimeError", val |-> <<>>]}
        ELSE choice(pool)

\* the outcomes of get_random_proxy(arg) when get_proxy_pool() gives loaded
get_random_proxy(arg, loaded) ==
    LET pool == IF arg.isNone THEN loaded.ret ELSE arg
    IN  IF arg.isNone /\ loaded.exc # "" THEN {[exc |-> loaded.exc, val |-> <<>>]}
        ELSE IF pool.isNone \/ pool.list = <<>>
             THEN {[exc |-> "RuntimeError", val |-> <<>>]}
        ELSE choice(pool)

----------------------------------------------------------------------------
(* The run: fetch, or a direct call of one of the selection functions.     *)

Agents == {"UA1", "UA2"}

\* what the user-agent service can reply
Responses ==
    {[ok |-> FALSE, hasResult |-> FALSE, result |-> <<>>],
     [ok |-> TRUE, hasResult |-> FALSE, result |-> <<>>]}
    \cup {[ok |-> TRUE, hasResult |-> TRUE, result |-> l] : l \in SeqsUpTo(Agents, MaxAgents)}

\* the pools a caller can pass to get_random_proxy
Pools == SeqsUpTo({Proxies(Strip(Line1)), Proxies(Strip(Line2))}, MaxPool)

\* the default directory data/proxies: at most one file
RunDirs == UNION {DirsOfShape(ns) : ns \in Shapes(1, MaxRunLines)}

Init ==
    /\ string = <<>>
    /\ result = FALSE
    /\ created = FALSE
    /\ poolRet = None
    /\ response = NoResponse
    /\ queried = FALSE
    /\ user_agent = <<>>
    /\ proxy = <<>>
    /\ driver = "none"
    /\ events = <<>>
    /\ caught = FALSE
    /\ error = ""
    /\ entry \in {"fetch", "get_random_user_agent", "get_random_proxy"}
    /\ pc = entry
    /\ user_agents_list \in
          IF entry = "get_random_user_agent"
          THEN {None} \cup {Some(l) : l \in SeqsUpTo(Agents, MaxAgents)}
          ELSE {None}
    /\ proxy_pool \in
          IF entry = "get_random_proxy" THEN {None} \cup {Some(l) : l \in Pools}
          ELSE {None}
    /\ dir \in IF entry = "get_random_user_agent" THEN {<<>>} ELSE RunDirs
    /\ dirExists \in {b \in BOOLEAN : dir # <<>> => b}

\* fetch calls initialize_driver(), whose user_agent is None
Fetch ==
    /\ pc = "fetch"
    /\ pc' = "get_random_user_agent"
    /\ events' = Append(events, "initialize_driver")
    /\ UNCHANGED <<entry, validVars, poolVars, user_agents_list, proxy_pool, response,
                   queried, user_agent, proxy, driver, caught, error>>

GetRandomUserAgent ==
    /\ pc = "get_random_user_agent"
    /\ \E resp \in Responses :
          \E o \in get_random_user_agent(user_agents_list, resp) :
              /\ response' = IF o.asked THEN resp ELSE NoResponse
              /\ queried' = o.asked
              /\ user_agent' = o.val
              /\ error' = o.exc
              /\ pc' = IF o.exc # "" THEN "raised"
                       ELSE IF entry = "fetch" THEN "get_random_proxy" ELSE "done"
    /\ events' = Append(events, "get_random_user_agent")
    /\ UNCHANGED <<entry, validVars, poolVars, user_agents_list, proxy_pool, proxy,
                   driver, caught>>

GetRandomProxy ==
    /\ pc = "get_random_proxy"
    /\ \E o \in get_random_proxy(proxy_pool, get_proxy_pool(dir)) :
          /\ proxy' = o.val
          /\ error' = o.exc
          /\ pc' = IF o.exc # "" THEN "raised"
                   ELSE IF entry = "fetch" THEN "options" ELSE "done"
    /\ IF proxy_pool.isNone
       THEN /\ created' = ~dirExists
            /\ dirExists' = TRUE
            /\ poolRet' = get_proxy_pool(dir).ret
       ELSE UNCHANGED <<created, dirExists, poolRet>>
    /\ events' = Append(events, "get_random_proxy")
    /\ UNCHANGED <<entry, validVars, dir, user_agents_list, proxy_pool, response,
                   queried, user_agent, driver, caught>>

\* a step of the try block raises: control goes to the except clause
ToExcept ==
    /\ pc' = "except"
    /\ caught' = TRUE

\* uc.ChromeOptions() and the three add_argument calls
BuildOptions ==
    /\ pc = "options"
    /\ events' = Append(events, "options")
    /\ \/ pc' = "chrome" /\ UNCHANGED caught
       \/ ToExcept
    /\ UNCHANGED <<entry, validVars, poolVars, user_agents_list, proxy_pool, response,
                   queried, user_agent, proxy, driver, error>>

\* uc.Chrome(options=options)
LaunchChrome ==
    /\ pc = "chrome"
    /\ events' = Append(events, "launch")
    /\ \/ pc' = "stealth" /\ driver' = "live" /\ UNCHANGED caught
       \/ ToExcept /\ UNCHANGED driver
    /\ UNCHANGED <<entry, validVars, poolVars, user_agents_list, proxy_pool, response,
                   queried, user_agent, proxy, error>>

\* stealth(driver, ...), then return driver
Stealth ==
    /\ pc = "stealth"
    /\ events' = Append(events, "stealth")
    /\ \/ pc' = "get" /\ UNCHANGED caught
       \/ ToExcept
    /\ UNCHANGED <<entry, validVars, poolVars, user_agents_list, proxy_pool, response,
                   queried, user_agent, proxy, driver, error>>

\* except Exception as e: logging.ERROR(...) calls the int 40, which raises
\* TypeError out of initialize_driver and out of fetch
Except ==
    /\ pc = "except"
    /\ pc' = "raised"
    /\ error' = "TypeError"
    /\ events' = Append(events, "except")
    /\ UNCHANGED <<entry, validVars, poolVars, user_agents_list, proxy_pool, response,
                   queried, user_agent, proxy, driver, caught>>

\* what a failing WebDriver call does: the exception leaves fetch
Raise(exc) ==
    /\ pc' = "raised"
    /\ error' = exc

\* driver.get(url)
Navigate ==
    /\ pc = "get"
    /\ events' = Append(events, "navigate")
    /\ \/ pc' = "wait" /\ UNCHANGED error
       \/ Raise("WebDriverException")
    /\ UNCHANGED <<entry, validVars, poolVars, user_agents_list, proxy_pool, response,
                   queried, user_agent, proxy, driver, caught>>

\* mutant: a timed out wait is tried again
WaitUntilRetry ==
    /\ pc = "wait"
    /\ events' = Append(events, "wait")
    /\ \/ pc' = "save_screenshot" /\ UNCHANGED error
       \/ Len(events) < 8 /\ pc' = "wait" /\ UNCHANGED error
    /\ UNCHANGED <<entry, validVars, poolVars, user_agents_list, proxy_pool, response,
                   queried, user_agent, proxy, driver, caught>>

\* WebDriverWait(driver, 60).until(...)
WaitUntil ==
    /\ pc = "wait"
    /\ events' = Append(events, "wait")
    /\ \/ pc' = "save_screenshot" /\ UNCHANGED error
       \/ Raise("TimeoutException")
    /\ UNCHANGED <<entry, validVars, poolVars, user_agents_list, proxy_pool, response,
                   queried, user_agent, proxy, driver, caught>>

\* driver.save_screenshot(path)
SaveScreenshot ==
    /\ pc = "save_screenshot"
    /\ events' = Append(events, "screenshot")
    /\ \/ pc' = "quit" /\ UNCHANGED error
       \/ Raise("WebDriverException")
    /\ UNCHANGED <<entry, validVars, poolVars, user_agents_list, proxy_pool, response,
                   queried, user_agent, proxy, driver, caught>>

\* driver.quit()
Quit ==
    /\ pc = "quit"
    /\ events' = Append(events, "close")
    /\ \/ pc' = "done" /\ driver' = "quit" /\ UNCHANGED error
       \/ Raise("WebDriverException") /\ UNCHANGED driver
    /\ UNCHANGED <<entry, validVars, poolVars, user_agents_list, proxy_pool, response,
                   queried, user_agent, proxy, caught>>

Next ==
    \/ Fetch
    \/ GetRandomUserAgent
    \/ GetRandomProxy
    \/ BuildOptions
    \/ LaunchChrome
    \/ Stealth
    \/ Except
    \/ Navigate
    \/ WaitUntil
    \/ SaveScreenshot
    \/ Quit

Spec == Init /\ [][Next]_vars

----------------------------------------------------------------------------
(* The proxy line shape [scheme://][user:pass@]host:port, stated on the    *)
(* pieces of the string rather than by the pattern.                        *)

\* s without its leading and trailing whitespace
Trimmed(s) ==
    LET solid == {k \in 1..Len(s) : s[k] \notin Whitespace}
    IN  IF solid = {} THEN <<>>
        ELSE SubSeq(s, CHOOSE k \in solid : \A m \in solid : k <= m,
                       CHOOSE k \in solid : \A m \in solid : k >= m)

AllIn(s, S) == \A k \in 1..Len(s) : s[k] \in S

AllCred(s) == \A k \in 1..Len(s) : s[k] \notin {":", "@", " ", "\t", "\n", "\r", "\f"}

\* user:pass@, or nothing
CredShape(c) ==
    \/ c = <<>>
    \/ \E m \in 2..(Len(c) - 2) :
          /\ c[m] = ":"
          /\ c[Len(c)] = "@"
          /\ AllCred(SubSeq(c, 1, m - 1))
          /\ AllCred(SubSeq(c, m + 1, Len(c) - 1))

Octet(o) == Len(o) \in 1..3 /\ AllIn(o, Digits)

DottedQuadShape(h) ==
    \E a \in 1..Len(h), b \in 1..Len(h), c \in 1..Len(h) :
        /\ a < b /\ b < c
        /\ h[a] = "." /\ h[b] = "." /\ h[c] = "."
        /\ Octet(SubSeq(h, 1, a - 1)) /\ Octet(SubSeq(h, a + 1, b - 1))
        /\ Octet(SubSeq(h, b + 1, c - 1)) /\ Octet(SubSeq(h, c + 1, Len(h)))

DomainShape(h) == Len(h) >= 1 /\ AllIn(h, Letters \cup Digits \cup {".", "-"})

\* ":" and 1 to 5 digits
PortShape(p) ==
    /\ Len(p) \in 2..6
    /\ p[1] = ":"
    /\ AllIn(Tail(p), Digits)

HasShape(t) ==
    \E i \in 0..Len(t) :
        /\ SubSeq(t, 1, i) \in {<<>>, Http, Https}
        /\ \E j \in i..Len(t) :
              /\ CredShape(SubSeq(t, i + 1, j))
              /\ \E k \in j..Len(t) :
                    /\ PortShape(SubSeq(t, k + 1, Len(t)))
                    /\ \/ DottedQuadShape(SubSeq(t, j + 1, k))
                       \/ DomainShape(SubSeq(t, j + 1, k))

\* the number of digits t ends with
DigitSuffix(t) ==
    IF AllIn(t, Digits) THEN Len(t)
    ELSE Len(t) - (CHOOSE k \in 1..Len(t) :
                      /\ t[k] \notin Digits
                      /\ \A m \in (k + 1)..Len(t) : t[m] \in Digits)

\* t ends with ":" and digits (possibly none)
HasPortSuffix(t) ==
    Len(t) > DigitSuffix(t) /\ t[Len(t) - DigitSuffix(t)] = ":"

\* the places where "://" occurs in t
SchemeMarks(t) == {k \in 1..(Len(t) - 2) : SubSeq(t, k, k + 2) = <<":", "/", "/">>}

\* t has a scheme prefix before its first "://" that is not http or https
ForeignScheme(t) ==
    /\ SchemeMarks(t) # {}
    /\ LET k == CHOOSE x \in SchemeMarks(t) : \A y \in SchemeMarks(t) : x <= y
       IN  SubSeq(t, 1, k - 1) \notin {<<"h", "t", "t", "p">>, <<"h", "t", "t", "p", "s">>}

----------------------------------------------------------------------------
(* What get_proxy_pool is to return, stated on the directory.              *)

\* a file the loop reads to its end
ReadOk(file) == file.txt /\ file.fail = 0

RECURSIVE LinesOf(_)
\* the lines of the files read to their end, in order
LinesOf(d) ==
    IF d = <<>> THEN <<>>
    ELSE (IF ReadOk(Head(d)) THEN Head(d).lines ELSE <<>>) \o LinesOf(Tail(d))

\* which of the lines a file can hold pass is_valid_proxy
LineIsValid == [l \in Lines |-> is_valid_proxy(l)]

ValidLinesOf(d) == SelectSeq(LinesOf(d), LAMBDA l : LineIsValid[l])

\* the trimmed line without a leading http:// or https://
HostPart(line) ==
    LET t == Trimmed(line)
    IN  IF Len(t) >= 7 /\ SubSeq(t, 1, 7) = Http THEN SubSeq(t, 8, Len(t))
        ELSE IF Len(t) >= 8 /\ SubSeq(t, 1, 8) = Https THEN SubSeq(t, 9, Len(t))
        ELSE t

\* the entry a valid line is to give
EntryOf == [l \in Lines |-> [http |-> Http \o HostPart(l), https |-> Https \o HostPart(l)]]

ExpectedPool(d) ==
    LET valid == ValidLinesOf(d)
    IN  [k \in 1..Len(valid) |-> EntryOf[valid[k]]]

(* C3: when some line is valid, get_proxy_pool returns one entry per valid *)
(* line of the readable .txt files, duplicates kept, each entry the pair   *)
(* http://X, https://X for the trimmed line X without its scheme.          *)
C3_OneEntryPerValidLine ==
    (pc = "done" /\ ExpectedPool(dir) # <<>>) =>
        /\ ~poolRet.isNone
        /\ poolRet.list = ExpectedPool(dir)
        /\ \A k \in 1..Len(poolRet.list) :
              /\ Lit(poolRet.list[k].http, 0, Http)
              /\ Lit(poolRet.list[k].https, 0, Https)
              /\ SubSeq(poolRet.list[k].http, 8, Len(poolRet.list[k].http))
                     = SubSeq(poolRet.list[k].https, 9, Len(poolRet.list[k].https))

\* one file with two valid lines, the same line twice, around an invalid one
C3_Witness ==
    /\ pc = "done"
    /\ Len(dir) = 1
    /\ ReadOk(dir[1])
    /\ dir[1].lines = <<Line2, Line4, Line2>>
    /\ ~poolRet.isNone
    /\ Len(poolRet.list) = 2

(* C4: get_proxy_pool returns None, never an empty list, exactly when no   *)
(* line of a readable .txt file is valid; the directory exists afterwards. *)
C4_NoneIffNoValidLine ==
    pc = "done" =>
        /\ poolRet.isNone <=> ValidLinesOf(dir) = <<>>
        /\ poolRet # Some(<<>>)
        /\ dirExists
        /\ created => poolRet.isNone

\* a directory whose only valid lines are in a file that is not *.txt
C4_Witness ==
    /\ pc = "done"
    /\ poolRet.isNone
    /\ dir # <<>>
    /\ \A k \in 1..Len(dir) : ~dir[k].txt
    /\ \E k \in 1..Len(dir) : \E m \in 1..Len(dir[k].lines) :
          LineIsValid[dir[k].lines[m]]

\* the entries of the optional list
ListOf(opt) == IF opt.isNone THEN <<>> ELSE opt.list

(* C8: whichever .txt files fail to open or to read, get_proxy_pool        *)
(* returns, and the pool holds the entries of the valid lines of the files *)
(* read without error and no entry of a failed file.                       *)
C8_FailedFilesSkipped ==
    (/\ pc # "get_proxy_pool"
     /\ \E k \in 1..Len(dir) : dir[k].txt /\ dir[k].fail # 0) =>
        /\ pc = "done"
        /\ error = ""
        /\ ListOf(poolRet) = ExpectedPool(dir)

\* a file failed after a valid line had been read, and another file was read
C8_Witness ==
    /\ pc = "done"
    /\ Len(dir) = 2
    /\ dir[1].txt /\ dir[1].fail = 3 /\ LineIsValid[dir[1].lines[1]]
    /\ ReadOk(dir[2]) /\ dir[2].lines = <<Line3>>
    /\ ListOf(poolRet) = <<Proxies(Strip(Line3))>>

----------------------------------------------------------------------------
(* The run's claims.                                                       *)

Called(f) == \E k \in 1..Len(events) : events[k] = f

\* the pool get_random_proxy selects from
UsedPool == IF proxy_pool.isNone THEN poolRet ELSE proxy_pool

(* C5: get_random_proxy raises its fatal error and returns nothing when    *)
(* the pool it ends up with is empty, passed or loaded, and no browser is  *)
(* launched after that; on a non-empty pool it returns one of its          *)
(* elements.                                                               *)
C5_EmptyPoolFatal ==
    Called("get_random_proxy") =>
        IF UsedPool.isNone \/ UsedPool.list = <<>>
        THEN /\ proxy = <<>>
             /\ error = "RuntimeError"
             /\ pc = "raised"
             /\ driver = "none"
             /\ ~Called("launch")
        ELSE /\ proxy # <<>>
             /\ \E k \in 1..Len(UsedPool.list) : proxy[1] = UsedPool.list[k]

\* fetch found files in data/proxies but no valid line, and stopped
C5_Witness ==
    /\ entry = "fetch"
    /\ Called("get_random_proxy")
    /\ dir # <<>>
    /\ poolRet.isNone
    /\ error = "RuntimeError"

\* the list get_random_user_agent selects from
AgentPool == IF user_agents_list.isNone THEN response.result ELSE user_agents_list.list

(* C6: get_random_user_agent returns an element of the pool it selects     *)
(* from: of the supplied pool, without a query, when one is supplied and   *)
(* non-empty, and of the service's 'result' list otherwise; from a pool of *)
(* one element it returns that element.                                    *)
C6_AgentFromPool ==
    Called("get_random_user_agent") =>
        /\ user_agent # <<>> => \E k \in 1..Len(AgentPool) : user_agent[1] = AgentPool[k]
        /\ (~user_agents_list.isNone /\ user_agents_list.list # <<>>) =>
              /\ user_agent # <<>>
              /\ ~queried
              /\ response = NoResponse
        /\ (user_agents_list.isNone /\ user_agent # <<>>) =>
              queried /\ response.ok /\ response.hasResult
        /\ (Len(AgentPool) = 1 /\ (user_agents_list.isNone => response.ok)) =>
              user_agent = <<AgentPool[1]>>

\* a direct call with two agents returned the second
C6_Witness ==
    /\ entry = "get_random_user_agent"
    /\ pc = "done"
    /\ user_agents_list = Some(<<"UA1", "UA2">>)
    /\ user_agent = <<"UA2">>
    /\ ~queried

(* C7: on an empty list, supplied or returned by the service, and on a     *)
(* reply without 'result', get_random_user_agent returns nothing and its   *)
(* error reaches the caller, so that no browser is launched.               *)
C7_EmptyAgentsRaise ==
    (/\ Called("get_random_user_agent")
     /\ user_agents_list.isNone => response.ok
     /\ AgentPool = <<>>) =>
        /\ user_agent = <<>>
        /\ pc = "raised"
        /\ error = IF user_agents_list.isNone /\ ~response.hasResult
                   THEN "TypeError" ELSE "IndexError"
        /\ driver = "none"
        /\ ~Called("launch")

\* in fetch the service replied without 'result' and the run stopped
C7_Witness ==
    /\ entry = "fetch"
    /\ queried
    /\ response.ok
    /\ ~response.hasResult
    /\ error = "TypeError"
    /\ pc = "raised"

(* C9: an exception raised in initialize_driver's try block is caught and  *)
(* swallowed: no error leaves initialize_driver and fetch goes on with the *)
(* handle it was given.                                                    *)
C9_FailureSwallowed ==
    (caught /\ pc # "except") => (error = "" /\ pc = "get")

SessionSteps == {"launch", "navigate", "wait", "screenshot", "close"}

Session == SelectSeq(events, LAMBDA e : e \in SessionSteps)

SessionOrder == <<"launch", "navigate", "wait", "screenshot", "close">>

(* C10: in fetch the steps launch, navigate, wait, screenshot, close occur *)
(* at most once each and in that order; after a timed out wait the run     *)
(* has stopped with no second wait, no screenshot and no close.            *)
C10_SessionOrder ==
    /\ Len(Session) <= Len(SessionOrder)
    /\ Session = SubSeq(SessionOrder, 1, Len(Session))
    /\ Called("screenshot") => error # "TimeoutException"
    /\ error = "TimeoutException" =>
          /\ pc = "raised"
          /\ Session = <<"launch", "navigate", "wait">>
          /\ driver = "live"

\* the wait timed out
C10_Witness ==
    /\ entry = "fetch"
    /\ pc = "raised"
    /\ error = "TimeoutException"
    /\ driver = "live"

----------------------------------------------------------------------------
(* C1: is_valid_proxy returns false for every string whose scheme prefix   *)
(* before "://" is not http or https, for every string with no ":port"     *)
(* suffix, and for every string whose port has 0 or more than 5 digits.    *)
C1_RejectsMalformed ==
    pc = "done" =>
        LET t == Trimmed(string)
        IN  (\/ ForeignScheme(t)
             \/ ~HasPortSuffix(t)
             \/ DigitSuffix(t) = 0
             \/ DigitSuffix(t) > 5) => result = FALSE

(* C2: every string that has the shape [http://|https://][user:pass@]      *)
(* host:port (port of 1 to 5 digits, by count only) once trimmed is        *)
(* accepted, and the result for a string is the result for the trimmed     *)
(* string.                                                                 *)
C2_AcceptsShaped ==
    pc = "done" =>
        /\ HasShape(Trimmed(string)) => result = TRUE
        /\ result = is_valid_proxy(Trimmed(string))

\* a padded line with scheme, credentials and the port 99999 was accepted
C2_Witness ==
    /\ pc = "done"
    /\ result = TRUE
    /\ string # Trimmed(string)
    /\ HasShape(Trimmed(string))
    /\ Lit(Trimmed(string), 0, Https \o <<"u", ":", "p", "@">>)
    /\ DigitSuffix(Trimmed(string)) = 5

====
